---- MODULE Spec2Model ----
(***************************************************************************)
(* A model of transifex.native.cds.CDSHandler: the client of the Content   *)
(* Delivery Service (fetch_languages, fetch_translations,                  *)
(* push_source_strings, _serialize), together with the outcomes an HTTP    *)
(* request made through the requests library can have.                     *)
(***************************************************************************)
EXTENDS Integers, Sequences, FiniteSets, TLC

VARIABLES
    configured_language_codes, \* self.configured_language_codes (a list)
    token,                     \* self.token
    secret,                    \* self.secret
    host,                      \* self.host
    pc,                        \* "idle", "loop" (inside fetch_translations), "returned"
    op,                        \* the public operation called and its arguments
    requests,                  \* the HTTP requests issued during the call, in order
    outcomes,                  \* what each of these requests came to, in the same order
    errors,                    \* the messages given to logger.error during the call, in order
    pending,                   \* codes the loop of fetch_translations has not visited
    translations,              \* the mapping fetch_translations accumulates
    ret,                       \* the value returned to the caller
    raised                     \* the exception that reached the caller

vars == <<configured_language_codes, token, secret, host, pc, op, requests,
          outcomes, errors, pending, translations, ret, raised>>

config == <<configured_language_codes, token, secret, host>>

----------------------------------------------------------------------------
(* Bounds of the model *)

MaxConfigured == 2      \* length of the configured language list
MaxLangs == 2           \* length of the 'data' list of a /languages response
MaxStrings == 2         \* length of the list given to push_source_strings

SeqUpTo(S, n) == UNION {[1..k -> S] : k \in 0..n}

Range(s) == {s[i] : i \in DOMAIN s}

----------------------------------------------------------------------------
(* Python values *)

None == "<None>"

\* The truth value Python gives a string or None.
Truthy(v) == v # None /\ v # ""

EmptyDict == [k \in {} |-> None]

\* dict(pairs): a later pair replaces an earlier one with the same key.
DictFromPairs(pairs) ==
    [k \in {pairs[i][1] : i \in DOMAIN pairs} |->
        LET last == CHOOSE i \in DOMAIN pairs :
                        /\ pairs[i][1] = k
                        /\ \A j \in DOMAIN pairs : pairs[j][1] = k => j <= i
        IN pairs[last][2]]

\* d[k] = v
DictSet(d, k, v) == [x \in DOMAIN d \cup {k} |-> IF x = k THEN v ELSE d[x]]

NoExc == [type |-> "None", msg |-> ""]

Exc(t, m) == [type |-> t, msg |-> m]

----------------------------------------------------------------------------
(* Module constants of cds.py *)

TRANSIFEX_CDS_HOST == "https://cds.svc.transifex.net"

TRANSIFEX_CDS_URLS ==
    [FETCH_AVAILABLE_LANGUAGES |-> "/languages",
     FETCH_TRANSLATIONS_FOR_LANGUAGE |-> "/content/",   \* followed by the code
     PUSH_SOURCE_STRINGS |-> "/content/"]

\* The interface names of the three metadata fields (transifex.native.consts).
KEY_DEVELOPER_COMMENT == "_comment"
KEY_CHARACTER_LIMIT == "_charlimit"
KEY_TAGS == "_tags"

\* MAPPING.get(k, k)
MAPPING(k) ==
    IF k = KEY_DEVELOPER_COMMENT THEN "developer_comment"
    ELSE IF k = KEY_CHARACTER_LIMIT THEN "character_limit"
    ELSE IF k = KEY_TAGS THEN "tags"
    ELSE k

----------------------------------------------------------------------------
(* Inputs *)

Codes == {"el", "en"}

Secrets == {None, "", "some_secret"}

Hosts == {None, "https://some.host"}

\* The language_code argument of fetch_translations.
LanguageCodeArgs == Codes \cup {None, ""}

\* Language records of a /languages response; one of them has no 'code'.
LangRecords == {[code |-> c] : c \in Codes} \cup {[name |-> "Greek"]}

Payloads == {"payload_1", "payload_2"}

----------------------------------------------------------------------------
(* HTTP, as the requests library presents it *)

Statuses == {200, 304, 422, 500}

Reason(status) ==
    CASE status = 200 -> "OK"
      [] status = 304 -> "Not Modified"
      [] status = 422 -> "Unprocessable Entity"
      [] status = 500 -> "Internal Server Error"

\* Response.raise_for_status raises for 4xx and 5xx only.
IsClientError(status) == 400 <= status /\ status < 500
IsServerError(status) == 500 <= status /\ status < 600

\* Response.ok
Ok(response) ==
    ~(IsClientError(response.status_code) \/ IsServerError(response.status_code))

\* str(HTTPError) as raise_for_status builds it.
HTTPError(response) ==
    Exc("HTTPError",
        ToString(response.status_code)
            \o (IF IsClientError(response.status_code)
                THEN " Client Error: " ELSE " Server Error: ")
            \o response.reason \o " for url: " \o response.url)

\* Bodies: text that is not JSON, a JSON array, a JSON object.
InvalidBody == [json |-> "invalid"]
ArrayBody == [json |-> "array"]
ObjectBody(fields) == [json |-> "object", value |-> fields]

LanguagesBodies ==
    {InvalidBody, ArrayBody, ObjectBody([wrong_key |-> <<>>])}
    \cup {ObjectBody([data |-> d]) : d \in SeqUpTo(LangRecords, MaxLangs)}

ContentBodies ==
    {InvalidBody, ArrayBody, ObjectBody([wrong_key |-> "payload_1"])}
    \cup {ObjectBody([data |-> p]) : p \in Payloads}

PushBodies == {InvalidBody, ObjectBody([data |-> <<>>])}

FailureOutcomes ==
    {[exc |-> Exc("ConnectionError", "")],
     [exc |-> Exc("ReadTimeout", "timed out")]}

\* What a request to url can come to: an exception of the library, or a response.
Outcomes(url, bodies) ==
    FailureOutcomes
    \cup {[exc |-> NoExc,
           response |-> [status_code |-> s, reason |-> Reason(s),
                         url |-> url, body |-> b]] : s \in Statuses, b \in bodies}

\* Response.json() followed by json_content['data'].
JsonData(response) ==
    IF response.body.json = "invalid"
    THEN [exc |-> Exc("ValueError", "No JSON object could be decoded")]
    ELSE IF response.body.json = "array"
    THEN [exc |-> Exc("TypeError", "list indices must be integers or slices, not str")]
    ELSE IF "data" \notin DOMAIN response.body.value
    THEN [exc |-> Exc("KeyError", "'data'")]
    ELSE [exc |-> NoExc, value |-> response.body.value.data]

GetRequest(url) ==
    [method |-> "GET", url |-> url, auth |-> "Bearer " \o token, json |-> None]

----------------------------------------------------------------------------
(* fetch_languages.  The messages are those of cds.py with each backquote  *)
(* written as a quote.                                                     *)

LanguagesUrl == host \o TRANSIFEX_CDS_URLS.FETCH_AVAILABLE_LANGUAGES

\* LanguagesTry with the reason-phrase message of the other fetch operation.
LanguagesTry_TranslationsMessage(o) ==
    IF o.exc # NoExc THEN [exc |-> o.exc, logged |-> <<>>]
    ELSE IF ~Ok(o.response)
    THEN [exc |-> HTTPError(o.response),
          logged |-> <<"Error retrieving translations from CDS: '"
                        \o o.response.reason \o "'">>]
    ELSE LET d == JsonData(o.response)
         IN IF d.exc # NoExc THEN [exc |-> d.exc, logged |-> <<>>]
            ELSE [exc |-> NoExc, logged |-> <<>>, value |-> d.value]

\* The try of fetch_languages when its GET comes to outcome o: the exception
\* raised, the messages logged inside the try, the value of json_content['data'].
LanguagesTry(o) ==
    IF o.exc # NoExc THEN [exc |-> o.exc, logged |-> <<>>]
    ELSE IF ~Ok(o.response)
    THEN [exc |-> HTTPError(o.response),
          logged |-> <<"Error retrieving languages from CDS: '"
                        \o o.response.reason \o "'">>]
    ELSE LET d == JsonData(o.response)
         IN IF d.exc # NoExc THEN [exc |-> d.exc, logged |-> <<>>]
            ELSE [exc |-> NoExc, logged |-> <<>>, value |-> d.value]

\* LanguagesErrorMessage with a first clause that catches ValueError only.
LanguagesErrorMessage_ValueErrorOnly(e) ==
    IF e.type = "ValueError"
    THEN "Error retrieving languages from CDS: Malformed response"
    ELSE IF e.type = "ConnectionError"
    THEN "Error retrieving languages from CDS: ConnectionError"
    ELSE "Error retrieving languages from CDS: UnknownError ('" \o e.msg \o "')"

\* The except clauses of fetch_languages.
LanguagesErrorMessage(e) ==
    IF e.type \in {"KeyError", "ValueError"}
    THEN "Error retrieving languages from CDS: Malformed response"
    ELSE IF e.type = "ConnectionError"
    THEN "Error retrieving languages from CDS: ConnectionError"
    ELSE "Error retrieving languages from CDS: UnknownError ('" \o e.msg \o "')"

\* The whole of fetch_languages when its GET comes to outcome o:
\* the list returned and the messages logged.
fetch_languages(o) ==
    LET t == LanguagesTry(o)
    IN IF t.exc = NoExc
       THEN [languages |-> t.value, logged |-> t.logged]
       ELSE [languages |-> <<>>,
             logged |-> Append(t.logged, LanguagesErrorMessage(t.exc))]

Call(name, language_code, strings, purge) ==
    [name |-> name, language_code |-> language_code,
     strings |-> strings, purge |-> purge]

FetchLanguages ==
    /\ pc = "idle"
    /\ \E o \in Outcomes(LanguagesUrl, LanguagesBodies) :
        LET r == fetch_languages(o)
        IN /\ op' = Call("fetch_languages", None, <<>>, FALSE)
           /\ requests' = <<GetRequest(LanguagesUrl)>>
           /\ outcomes' = <<o>>
           /\ errors' = r.logged
           /\ ret' = r.languages
           /\ raised' = None
           /\ pc' = "returned"
    /\ UNCHANGED <<config, pending, translations>>

----------------------------------------------------------------------------
(* fetch_translations *)

ContentUrl(language_code) ==
    host \o TRANSIFEX_CDS_URLS.FETCH_TRANSLATIONS_FOR_LANGUAGE \o language_code

\* The except clauses of fetch_translations.
TranslationsErrorMessage(e) ==
    IF e.type \in {"KeyError", "ValueError"}
    THEN "Error retrieving translations from CDS: Malformed response"
    ELSE IF e.type = "ConnectionError"
    THEN "Error retrieving translations from CDS: ConnectionError"
    ELSE "Error retrieving translations from CDS: UnknownError ('" \o e.msg \o "')"

\* TranslationsTry without the call of raise_for_status.
TranslationsTry_NoRaise(o) ==
    IF o.exc # NoExc THEN [exc |-> o.exc, logged |-> <<>>]
    ELSE LET d == JsonData(o.response)
             logged == IF Ok(o.response) THEN <<>>
                       ELSE <<"Error retrieving translations from CDS: '"
                                \o o.response.reason \o "'">>
         IN IF d.exc # NoExc THEN [exc |-> d.exc, logged |-> logged]
            ELSE [exc |-> NoExc, logged |-> logged, value |-> d.value]

\* One pass of the loop body when its GET comes to outcome o.
TranslationsTry(o) ==
    IF o.exc # NoExc THEN [exc |-> o.exc, logged |-> <<>>]
    ELSE IF ~Ok(o.response)
    THEN [exc |-> HTTPError(o.response),
          logged |-> <<"Error retrieving translations from CDS: '"
                        \o o.response.reason \o "'">>]
    ELSE LET d == JsonData(o.response)
         IN IF d.exc # NoExc THEN [exc |-> d.exc, logged |-> <<>>]
            ELSE [exc |-> NoExc, logged |-> <<>>, value |-> d.value]

\* [lang['code'] for lang in langs]
LanguageCodesOf(langs) ==
    IF \E i \in DOMAIN langs : "code" \notin DOMAIN langs[i]
    THEN [exc |-> Exc("KeyError", "'code'")]
    ELSE [exc |-> NoExc, value |-> [i \in DOMAIN langs |-> langs[i].code]]

\* CodesToFetch without the listed languages.
CodesToFetch_Configured(languages) == Range(configured_language_codes)

\* CodesToFetch without the configured languages.
CodesToFetch_Listed(languages) == Range(languages)

\* set(languages) & set(self.configured_language_codes)
CodesToFetch(languages) == Range(languages) \cap Range(configured_language_codes)

\* The call up to the loop, the codes to fetch being those of languages.
EnterLoop(language_code, reqs, outs, logged, languages) ==
    /\ op' = Call("fetch_translations", language_code, <<>>, FALSE)
    /\ requests' = reqs
    /\ outcomes' = outs
    /\ errors' = logged
    /\ pending' = CodesToFetch(languages)
    /\ translations' = EmptyDict
    /\ ret' = None
    /\ raised' = None
    /\ pc' = "loop"

\* NoLanguageCode with the test inverted.
NoLanguageCode_Inverted(language_code) == Truthy(language_code)

\* not language_code
NoLanguageCode(language_code) == ~Truthy(language_code)

\* The start of fetch_translations: the languages are found, the loop is entered.
FetchTranslationsBegin ==
    /\ pc = "idle"
    /\ \E language_code \in LanguageCodeArgs :
        IF NoLanguageCode(language_code)
        THEN \E o \in Outcomes(LanguagesUrl, LanguagesBodies) :
                LET r == fetch_languages(o)
                    c == LanguageCodesOf(r.languages)
                IN IF c.exc = NoExc
                   THEN EnterLoop(language_code, <<GetRequest(LanguagesUrl)>>, <<o>>,
                                  r.logged, c.value)
                   ELSE /\ op' = Call("fetch_translations", language_code, <<>>, FALSE)
                        /\ requests' = <<GetRequest(LanguagesUrl)>>
                        /\ outcomes' = <<o>>
                        /\ errors' = Append(r.logged, TranslationsErrorMessage(c.exc))
                        /\ pending' = {}
                        /\ translations' = EmptyDict
                        /\ ret' = EmptyDict
                        /\ raised' = None
                        /\ pc' = "returned"
        ELSE EnterLoop(language_code, <<>>, <<>>, <<>>, <<language_code>>)
    /\ UNCHANGED config

\* One pass of the loop: the GET for one code not yet visited.
FetchTranslationsStep ==
    /\ pc = "loop"
    /\ \E language_code \in pending :
        \E o \in Outcomes(ContentUrl(language_code), ContentBodies) :
            LET t == TranslationsTry(o)
            IN /\ requests' = Append(requests, GetRequest(ContentUrl(language_code)))
               /\ outcomes' = Append(outcomes, o)
               /\ pending' = pending \ {language_code}
               /\ IF t.exc = NoExc
                  THEN /\ translations' = DictSet(translations, language_code, t.value)
                       /\ errors' = errors \o t.logged
                       /\ UNCHANGED <<ret, pc>>
                  ELSE /\ errors' = Append(errors \o t.logged,
                                           TranslationsErrorMessage(t.exc))
                       /\ ret' = translations
                       /\ pc' = "returned"
                       /\ UNCHANGED translations
    /\ UNCHANGED <<config, op, raised>>

\* The loop is over: return translations.
FetchTranslationsReturn ==
    /\ pc = "loop"
    /\ pending = {}
    /\ ret' = translations
    /\ pc' = "returned"
    /\ UNCHANGED <<config, op, requests, outcomes, errors, pending, translations,
                   raised>>

----------------------------------------------------------------------------
(* push_source_strings *)

\* A source string: key, string, meta (its items, in order), context.
SourceString(key, string, meta, context) ==
    [key |-> key, string |-> string, meta |-> meta, context |-> context]

SourceStrings ==
    {SourceString("k1", "hello", <<>>, None),
     SourceString("k1", "hello again",
                  <<<<KEY_DEVELOPER_COMMENT, "c1">>, <<"other", "x">>>>, "ctx"),
     SourceString("k2", "bye",
                  <<<<KEY_CHARACTER_LIMIT, "10">>, <<KEY_TAGS, "t1">>>>, ""),
     SourceString("k2", "bye",
                  <<<<KEY_DEVELOPER_COMMENT, "c1">>, <<"developer_comment", "c2">>>>, None),
     SourceString("k3", "well",
                  <<<<"developer_comment", "c2">>, <<KEY_DEVELOPER_COMMENT, "c1">>>>, "ctx"),
     SourceString("k3", "well", <<<<"context", "meta_ctx">>>>, "ctx"),
     SourceString("k1", "hello", <<<<"context", "meta_ctx">>>>, "")}

\* _serialize storing the context whatever it is.
_serialize_AlwaysContext(source_string) ==
    LET meta == DictFromPairs([i \in DOMAIN source_string.meta |->
                    <<MAPPING(source_string.meta[i][1]), source_string.meta[i][2]>>])
        data == [string |-> source_string.string,
                 meta |-> DictSet(meta, "context", source_string.context)]
    IN <<source_string.key, data>>

_serialize(source_string) ==
    LET meta == DictFromPairs([i \in DOMAIN source_string.meta |->
                    <<MAPPING(source_string.meta[i][1]), source_string.meta[i][2]>>])
        data == [string |-> source_string.string,
                 meta |-> IF Truthy(source_string.context)
                          THEN DictSet(meta, "context", source_string.context)
                          ELSE meta]
    IN <<source_string.key, data>>

PushUrl == host \o TRANSIFEX_CDS_URLS.PUSH_SOURCE_STRINGS

\* The except clauses of push_source_strings.
PushErrorMessage(e) ==
    IF e.type = "ConnectionError"
    THEN "Error pushing source strings to CDS: ConnectionError"
    ELSE "Error pushing source strings to CDS: UnknownError ('" \o e.msg \o "')"

PostRequest(strings, purge) ==
    [method |-> "POST", url |-> PushUrl,
     auth |-> "Bearer " \o token \o ":" \o secret,
     json |-> [data |-> DictFromPairs([i \in DOMAIN strings |-> _serialize(strings[i])]),
               meta |-> [purge |-> purge]]]

\* PushTry without the call of raise_for_status.
PushTry_NoRaise(o) ==
    IF o.exc # NoExc THEN [exc |-> o.exc, bound |-> FALSE]
    ELSE [exc |-> NoExc, bound |-> TRUE]

\* The try of push_source_strings when its POST comes to outcome o: the
\* exception raised and whether the name response was bound.
PushTry(o) ==
    IF o.exc # NoExc THEN [exc |-> o.exc, bound |-> FALSE]
    ELSE IF ~Ok(o.response)
    THEN [exc |-> HTTPError(o.response), bound |-> TRUE]
    ELSE [exc |-> NoExc, bound |-> TRUE]

\* SecretMissing testing for None only.
SecretMissing_IsNone == secret = None

\* not self.secret
SecretMissing == ~Truthy(secret)

ConfigurationError ==
    "Exception: You need to use 'TRANSIFEX_SECRET' when pushing source content"

PushSourceStrings ==
    /\ pc = "idle"
    /\ \E strings \in SeqUpTo(SourceStrings, MaxStrings), purge \in BOOLEAN :
        /\ op' = Call("push_source_strings", None, strings, purge)
        /\ IF SecretMissing
           THEN /\ raised' = ConfigurationError
                /\ requests' = <<>>
                /\ outcomes' = <<>>
                /\ errors' = <<>>
                /\ ret' = None
           ELSE \E o \in Outcomes(PushUrl, PushBodies) :
                LET t == PushTry(o)
                IN /\ requests' = <<PostRequest(strings, purge)>>
                   /\ outcomes' = <<o>>
                   /\ errors' = IF t.exc = NoExc THEN <<>>
                                ELSE <<PushErrorMessage(t.exc)>>
                   \* return response: the name is unbound when the POST itself raised
                   /\ IF t.bound
                      THEN ret' = o.response /\ raised' = None
                      ELSE ret' = None /\ raised' = "UnboundLocalError"
    /\ pc' = "returned"
    /\ UNCHANGED <<config, pending, translations>>

----------------------------------------------------------------------------
(* The caller takes the result; the record of the call starts afresh. *)

Reset ==
    /\ pc = "returned"
    /\ pc' = "idle"
    /\ op' = Call("none", None, <<>>, FALSE)
    /\ requests' = <<>>
    /\ outcomes' = <<>>
    /\ errors' = <<>>
    /\ pending' = {}
    /\ translations' = EmptyDict
    /\ ret' = None
    /\ raised' = None
    /\ UNCHANGED config

----------------------------------------------------------------------------

\* CDSHandler.__init__
Init ==
    /\ configured_language_codes \in SeqUpTo(Codes, MaxConfigured)
    /\ token = "some_token"
    /\ secret \in Secrets
    /\ \E h \in Hosts : host = IF Truthy(h) THEN h ELSE TRANSIFEX_CDS_HOST
    /\ pc = "idle"
    /\ op = Call("none", None, <<>>, FALSE)
    /\ requests = <<>>
    /\ outcomes = <<>>
    /\ errors = <<>>
    /\ pending = {}
    /\ translations = EmptyDict
    /\ ret = None
    /\ raised = None

Next ==
    \/ FetchLanguages
    \/ FetchTranslationsBegin
    \/ FetchTranslationsStep
    \/ FetchTranslationsReturn
    \/ PushSourceStrings
    \/ Reset

Spec == Init /\ [][Next]_vars

----------------------------------------------------------------------------
(* Vocabulary of the properties *)

Returned(name) == pc = "returned" /\ op.name = name

StartsWith(s, prefix) ==
    Len(s) >= Len(prefix) /\ SubSeq(s, 1, Len(prefix)) = prefix

Is2xx(status) == status \in 200..299

ErrorStatus(status) == status \in 400..599

Responded(o) == o.exc = NoExc

ConnectionFailed(o) == o.exc.type = "ConnectionError"

Unparseable(o) == Responded(o) /\ o.response.body.json = "invalid"

MissingData(o) ==
    /\ Responded(o)
    /\ o.response.body.json = "object"
    /\ "data" \notin DOMAIN o.response.body.value

HasData(o) ==
    /\ Responded(o)
    /\ o.response.body.json = "object"
    /\ "data" \in DOMAIN o.response.body.value

DataOf(o) == o.response.body.value.data

\* The request was answered with a status that is no error and a body with 'data'.
Succeeded(o) ==
    Responded(o) /\ ~ErrorStatus(o.response.status_code) /\ HasData(o)

\* The text of the HTTP error of a response, as the tests of the client quote it.
StatusErrorText(response, url) ==
    ToString(response.status_code)
        \o (IF response.status_code < 500 THEN " Client Error: " ELSE " Server Error: ")
        \o response.reason \o " for url: " \o url

\* The positions of the content requests of the call.
ContentIdx == {i \in DOMAIN requests : requests[i].url # host \o "/languages"}

CodeOf(i) == CHOOSE c \in Codes : requests[i].url = host \o "/content/" \o c

----------------------------------------------------------------------------
(* C1 *)

\* C1: with a push secret configured, push_source_strings never raises whatever
\* the POST comes to: a connection failure logs the ConnectionError message, any
\* other failure the UnknownError message, and the call returns a response
\* object; the only error ever raised is the configuration error.
C1_PushNeverRaises ==
    Returned("push_source_strings") =>
        /\ raised \in {None, ConfigurationError}
        /\ Truthy(secret) =>
            /\ raised = None
            /\ ConnectionFailed(outcomes[1]) =>
                errors = <<"Error pushing source strings to CDS: ConnectionError">>
            /\ (~Responded(outcomes[1]) /\ ~ConnectionFailed(outcomes[1])) =>
                /\ Len(errors) = 1
                /\ StartsWith(errors[1],
                              "Error pushing source strings to CDS: UnknownError ('")
            /\ Responded(outcomes[1]) => ret = outcomes[1].response

----------------------------------------------------------------------------
(* C2 *)

LanguagesMalformed == "Error retrieving languages from CDS: Malformed response"
LanguagesConnection == "Error retrieving languages from CDS: ConnectionError"
LanguagesUnknown == "Error retrieving languages from CDS: UnknownError ('"

\* The outcome of fetch_languages the claim describes, the statuses that count
\* as failures being those of IsFailure.
LanguagesOutcomeAsClaimed(IsFailure(_)) ==
    LET o == outcomes[1]
        failed == Responded(o) /\ IsFailure(o.response.status_code)
    IN /\ raised = None
       /\ IF Responded(o) /\ ~failed /\ HasData(o)
          THEN ret = DataOf(o) /\ errors = <<>>
          ELSE /\ ret = <<>>
               /\ errors # <<>>
               /\ IF ConnectionFailed(o)
                  THEN errors = <<LanguagesConnection>>
                  ELSE IF ~failed /\ (Unparseable(o) \/ MissingData(o))
                  THEN errors = <<LanguagesMalformed>>
                  ELSE IF failed
                  THEN errors =
                        <<"Error retrieving languages from CDS: '"
                              \o o.response.reason \o "'",
                          LanguagesUnknown
                              \o StatusErrorText(o.response, host \o "/languages")
                              \o "')">>
                  ELSE Len(errors) = 1 /\ StartsWith(errors[1], LanguagesUnknown)

NotIn2xx(status) == ~Is2xx(status)

\* C2 as stated: fetch_languages never raises; a 2xx response whose body is an
\* object with 'data' gives exactly that data and no error; every other outcome
\* gives the empty list, the last error being Malformed response (parse failure,
\* missing 'data'), ConnectionError, or UnknownError for anything else, every
\* non-2xx status included (the reason-phrase message logged before it).
C2_Original ==
    Returned("fetch_languages") => LanguagesOutcomeAsClaimed(NotIn2xx)

\* C2 amended: the same, the statuses that fail being the error statuses (4xx
\* and 5xx) and the ones that succeed being all the others.
C2_FetchLanguagesOutcome ==
    Returned("fetch_languages") => LanguagesOutcomeAsClaimed(ErrorStatus)

C2_Witness ==
    /\ Returned("fetch_languages")
    /\ Responded(outcomes[1])
    /\ outcomes[1].response.status_code = 500
    /\ HasData(outcomes[1])
    /\ DataOf(outcomes[1]) # <<>>
    /\ ret = <<>>
    /\ Len(errors) = 2

----------------------------------------------------------------------------
(* C3 *)

NoCodeGiven == op.name = "fetch_translations" /\ op.language_code \in {None, ""}

CodeGiven == op.name = "fetch_translations" /\ op.language_code \notin {None, ""}

\* Every request of the call succeeded and every language record has a code.
AllSucceeded ==
    /\ \A i \in DOMAIN outcomes : Succeeded(outcomes[i])
    /\ outcomes # <<>>
    /\ \A j \in DOMAIN DataOf(outcomes[1]) : "code" \in DOMAIN DataOf(outcomes[1])[j]

ListedCodes == {DataOf(outcomes[1])[j].code : j \in DOMAIN DataOf(outcomes[1])}

\* C3: called with no language code and every request succeeding,
\* fetch_translations returns a mapping whose keys are exactly the listed codes
\* that are configured, each with the data of the response of GET
\* <host>/content/<code>; one content GET per such code, none for another code.
C3_TranslationsOfIntersection ==
    (pc = "returned" /\ NoCodeGiven /\ AllSucceeded) =>
        LET wanted == ListedCodes \cap Range(configured_language_codes)
        IN /\ raised = None
           /\ DOMAIN ret = wanted
           /\ requests[1].url = host \o "/languages"
           /\ Len(requests) = 1 + Cardinality(wanted)
           /\ \A c \in wanted :
                \E i \in 2..Len(requests) :
                    /\ requests[i].method = "GET"
                    /\ requests[i].url = host \o "/content/" \o c
                    /\ ret[c] = DataOf(outcomes[i])
                    /\ \A j \in 2..Len(requests) :
                            requests[j].url = requests[i].url => j = i

C3_Witness ==
    /\ pc = "returned"
    /\ NoCodeGiven
    /\ AllSucceeded
    /\ Len(DataOf(outcomes[1])) > Cardinality(ListedCodes)
    /\ Cardinality(DOMAIN ret) = 1
    /\ Len(configured_language_codes) = 2

----------------------------------------------------------------------------
(* C4 *)

\* The GET of fetch_languages failed: an exception, an error status, or a body
\* without 'data'.
LanguagesFailed(o) == ~Succeeded(o)

----------------------------------------------------------------------------
(* C5 *)

\* C5: called with a language code, fetch_translations never requests
\* <host>/languages; a configured code gets exactly one GET of
\* <host>/content/<code> and, on success, the result {code: data}; a code that
\* is not configured gets no request, the empty mapping and no error.
C5_GivenCodeSkipsLanguages ==
    CodeGiven =>
        LET code == op.language_code
        IN /\ \A i \in DOMAIN requests : requests[i].url # host \o "/languages"
           /\ Len(requests) <= 1
           /\ pc = "returned" =>
                IF code \in Range(configured_language_codes)
                THEN /\ Len(requests) = 1
                     /\ requests[1].method = "GET"
                     /\ requests[1].url = host \o "/content/" \o code
                     /\ Succeeded(outcomes[1]) =>
                            /\ DOMAIN ret = {code}
                            /\ ret[code] = DataOf(outcomes[1])
                            /\ errors = <<>>
                ELSE /\ requests = <<>>
                     /\ ret = EmptyDict
                     /\ errors = <<>>

C5_Witness ==
    /\ pc = "returned"
    /\ CodeGiven
    /\ op.language_code \in Range(configured_language_codes)
    /\ Len(requests) = 1
    /\ DOMAIN ret = {op.language_code}

----------------------------------------------------------------------------
(* C6 *)

TranslationsMalformed == "Error retrieving translations from CDS: Malformed response"
TranslationsConnection == "Error retrieving translations from CDS: ConnectionError"
TranslationsUnknown == "Error retrieving translations from CDS: UnknownError ('"

Classified(m) ==
    \/ m = TranslationsMalformed
    \/ m = TranslationsConnection
    \/ StartsWith(m, TranslationsUnknown)

FailedContentIdx == {i \in ContentIdx : ~Succeeded(outcomes[i])}

----------------------------------------------------------------------------
(* C7 *)

\* C7: without a push secret (absent or empty) push_source_strings fails with
\* the configuration error before any network call: no POST, nothing logged,
\* nothing sent, whatever the strings and the purge flag.
C7_NoSecretNoPush ==
    (Returned("push_source_strings") /\ secret \in {None, ""}) =>
        /\ raised = ConfigurationError
        /\ requests = <<>>
        /\ outcomes = <<>>
        /\ errors = <<>>
        /\ ret = None

C7_Witness ==
    /\ Returned("push_source_strings")
    /\ secret = ""
    /\ Len(op.strings) = 2
    /\ op.purge
    /\ raised = ConfigurationError

----------------------------------------------------------------------------
(* C8 *)

PushOutcomeAsClaimed(IsFailure(_)) ==
    LET o == outcomes[1]
    IN /\ raised = None
       /\ ret = o.response
       /\ Len(requests) = 1
       /\ IF IsFailure(o.response.status_code)
          THEN errors =
                <<"Error pushing source strings to CDS: UnknownError ('"
                    \o StatusErrorText(o.response, host \o "/content/") \o "')">>
          ELSE errors = <<>>

\* C8 as stated: a non-2xx status of the POST logs exactly one error, the
\* UnknownError message, and the response received is returned; a 2xx status
\* logs nothing and the response is returned.
C8_Original ==
    (Returned("push_source_strings") /\ outcomes # <<>> /\ Responded(outcomes[1]))
        => PushOutcomeAsClaimed(NotIn2xx)

\* C8 amended: the statuses that log the UnknownError message are the error
\* statuses (4xx and 5xx); every other status logs nothing; in both cases the
\* response received is returned.
C8_PushReturnsResponse ==
    (Returned("push_source_strings") /\ outcomes # <<>> /\ Responded(outcomes[1]))
        => PushOutcomeAsClaimed(ErrorStatus)

C8_Witness ==
    /\ Returned("push_source_strings")
    /\ outcomes # <<>>
    /\ Responded(outcomes[1])
    /\ outcomes[1].response.status_code = 422
    /\ Len(errors) = 1
    /\ ret = outcomes[1].response

----------------------------------------------------------------------------
(* C9 *)

\* C9 as stated: in any call the number of HTTP requests issued never exceeds
\* the number of configured languages.
C9_Original == Len(requests) <= Len(configured_language_codes)

\* C9 amended: in any call the number of HTTP requests issued never exceeds
\* the number of distinct configured language codes plus one.
C9_RequestsBounded ==
    Len(requests) <= Cardinality(Range(configured_language_codes)) + 1

C9_Witness ==
    /\ Returned("fetch_translations")
    /\ Cardinality(Range(configured_language_codes)) = 2
    /\ Len(requests) = 3

----------------------------------------------------------------------------
(* C10 *)

\* The fixed renaming of metadata names.
Renamed(name) ==
    CASE name = KEY_DEVELOPER_COMMENT -> "developer_comment"
      [] name = KEY_CHARACTER_LIMIT -> "character_limit"
      [] name = KEY_TAGS -> "tags"
      [] OTHER -> name

\* The last string of the pushed list with key k.
LastWithKey(k) ==
    LET i == CHOOSE i \in DOMAIN op.strings :
                /\ op.strings[i].key = k
                /\ \A j \in DOMAIN op.strings : op.strings[j].key = k => j <= i
    IN op.strings[i]

\* The body of the POST has one entry per distinct key and the purge flag.
BodyShape(body) ==
    /\ DOMAIN body = {"data", "meta"}
    /\ body.meta = [purge |-> op.purge]
    /\ DOMAIN body.data = {op.strings[i].key : i \in DOMAIN op.strings}
    /\ \A k \in DOMAIN body.data :
        /\ DOMAIN body.data[k] = {"string", "meta"}
        /\ body.data[k].string = LastWithKey(k).string

\* C10 as stated: the record of a source string holds every metadata entry
\* under its renamed name with its value, and a 'context' entry equal to the
\* context exactly when the context is non-empty; the body sent is {'data':
\* these records by key, 'meta': {'purge': flag}}, one entry per distinct key.
C10_Original ==
    (Returned("push_source_strings") /\ requests # <<>>) =>
        LET body == requests[1].json
        IN /\ BodyShape(body)
           /\ \A k \in DOMAIN body.data :
                LET s == LastWithKey(k)
                    m == body.data[k].meta
                IN /\ \A j \in DOMAIN s.meta :
                        /\ Renamed(s.meta[j][1]) \in DOMAIN m
                        /\ m[Renamed(s.meta[j][1])] = s.meta[j][2]
                   /\ ("context" \in DOMAIN m /\ m["context"] = s.context)
                        <=> s.context \notin {None, ""}

\* C10 amended: the record holds, under each renamed name, the value of the
\* last metadata entry renamed to it; a non-empty context is stored under
\* 'context' in place of any metadata entry of that name, and with an empty
\* context 'context' is present only as such a metadata entry; the body sent
\* is as stated.
C10_SerializedBody ==
    (Returned("push_source_strings") /\ requests # <<>>) =>
        LET body == requests[1].json
        IN /\ BodyShape(body)
           /\ \A k \in DOMAIN body.data :
                LET s == LastWithKey(k)
                    m == body.data[k].meta
                    hasContext == s.context \notin {None, ""}
                IN /\ DOMAIN m =
                        {Renamed(s.meta[j][1]) : j \in DOMAIN s.meta}
                            \cup (IF hasContext THEN {"context"} ELSE {})
                   /\ \A n \in DOMAIN m :
                        IF n = "context" /\ hasContext
                        THEN m[n] = s.context
                        ELSE \E j \in DOMAIN s.meta :
                                /\ Renamed(s.meta[j][1]) = n
                                /\ m[n] = s.meta[j][2]
                                /\ \A l \in DOMAIN s.meta :
                                        Renamed(s.meta[l][1]) = n => l <= j

C10_Witness ==
    /\ Returned("push_source_strings")
    /\ requests # <<>>
    /\ Len(op.strings) = 2
    /\ op.strings[1].key = op.strings[2].key
    /\ Len(op.strings[2].meta) = 2
    /\ op.strings[2].context = "ctx"
    /\ DOMAIN requests[1].json.data["k1"].meta = {"developer_comment", "other", "context"}

====
